---------------------------- MODULE Spec2Model ----------------------------
(***************************************************************************)
(* Histogram-based outlier detection (pyod/models/hbos.py).                *)
(*                                                                         *)
(* The detector object (HBOS) is modelled with its constructor, fit and    *)
(* decision_function.  Real numbers are exact rationals <<n, d>>.  A value *)
(* log2(q) is kept as the record [log2of |-> q]: adding two such values    *)
(* multiplies the arguments, negating one inverts the argument, and        *)
(* comparing two compares the arguments (log2 is strictly increasing).     *)
(* Sample values are stored as integers in units of 1/Grid.                *)
(* Matrices are sequences of rows; hist_ and bin_edges_ are kept per       *)
(* feature: hist_[i][k+1] is the code's hist_[k, i].                       *)
(* threshold_ and labels_, which the base class derives from               *)
(* decision_scores_ at the end of fit, are not modelled.                   *)
(***************************************************************************)
EXTENDS Integers, Sequences, FiniteSets

VARIABLES obj, hist_, bin_edges_, decision_scores_, fitted, last, memo, calls

vars == <<obj, hist_, bin_edges_, decision_scores_, fitted, last, memo, calls>>

(***************************************************************************)
(* Bounds of the model.                                                    *)
(***************************************************************************)
MaxBins == 3
MaxRows == 3
MaxCols == 2
MaxVal == 2
MaxCalls == 4
Grid == 2

(***************************************************************************)
(* Exact rational arithmetic.                                              *)
(***************************************************************************)
Abs(x) == IF x < 0 THEN -x ELSE x

RECURSIVE GCD(_, _)
GCD(a, b) == IF b = 0 THEN a ELSE GCD(b, a % b)

R(n, d) ==
    LET g == GCD(Abs(n), Abs(d))
        s == IF d < 0 THEN -1 ELSE 1
    IN  <<(s * n) \div g, (s * d) \div g>>

RInt(k) == <<k, 1>>
RAdd(a, b) == R(a[1] * b[2] + b[1] * a[2], a[2] * b[2])
RSub(a, b) == R(a[1] * b[2] - b[1] * a[2], a[2] * b[2])
RMul(a, b) == R(a[1] * b[1], a[2] * b[2])
RDiv(a, b) == R(a[1] * b[2], a[2] * b[1])
RLe(a, b) == a[1] * b[2] <= b[1] * a[2]
RLt(a, b) == a[1] * b[2] < b[1] * a[2]

RECURSIVE RSum(_)
RSum(s) == IF s = <<>> THEN RInt(0) ELSE RAdd(Head(s), RSum(Tail(s)))

\* the real value of a stored sample value
Val(t) == R(t, Grid)

(***************************************************************************)
(* Values of the form log2(q), q > 0.                                      *)
(***************************************************************************)
Log2(q) == [log2of |-> q]
LZero == Log2(RInt(1))
LAdd(a, b) == Log2(RMul(a.log2of, b.log2of))
LNeg(a) == Log2(RDiv(RInt(1), a.log2of))
LLe(a, b) == RLe(a.log2of, b.log2of)
LLt(a, b) == RLt(a.log2of, b.log2of)

RECURSIVE LSum(_)
LSum(s) == IF s = <<>> THEN LZero ELSE LAdd(Head(s), LSum(Tail(s)))

\* np.max in place of np.min
LMaxForMin(s) == CHOOSE x \in {s[k] : k \in 1..Len(s)} :
                     \A y \in {s[k] : k \in 1..Len(s)} : LLe(y, x)

\* np.min over a non-empty vector of log2 values
LMin(s) == CHOOSE x \in {s[k] : k \in 1..Len(s)} :
               \A y \in {s[k] : k \in 1..Len(s)} : LLe(x, y)


(***************************************************************************)
(* Matrices.                                                               *)
(***************************************************************************)
\* a finite sequence as an explicit tuple (its elements computed once)
Tup(s) == s \o <<>>
\* the element of a one-element set
Only(S) == CHOOSE x \in S : TRUE

NRows(X) == Len(X)
NCols(X) == IF Len(X) = 0 THEN 0 ELSE Len(X[1])
Column(X, i) == Tup([j \in 1..Len(X) |-> Val(X[j][i])])

SeqMin(s) == CHOOSE x \in {s[k] : k \in 1..Len(s)} :
                 \A y \in {s[k] : k \in 1..Len(s)} : RLe(x, y)
SeqMax(s) == CHOOSE x \in {s[k] : k \in 1..Len(s)} :
                 \A y \in {s[k] : k \in 1..Len(s)} : RLe(y, x)

\* sklearn's check_array as both callers use it: the matrix must have at
\* least one row and one column (all modelled values are finite)
check_array(X) == NRows(X) >= 1 /\ NCols(X) >= 1

(***************************************************************************)
(* np.histogram(col, bins=n_bins, density=True), n_bins >= 1.              *)
(* The range is [min, max], widened by 0.5 on both sides when min = max;   *)
(* the edges are equally spaced; every bin is closed on the left and open  *)
(* on the right, except the last, which is closed on both sides.           *)
(***************************************************************************)
FirstEdge(col) ==
    Only({IF mn = mx THEN RSub(mn, R(1, 2)) ELSE mn :
             mn \in {SeqMin(col)}, mx \in {SeqMax(col)}})
LastEdge(col) ==
    Only({IF mn = mx THEN RAdd(mx, R(1, 2)) ELSE mx :
             mn \in {SeqMin(col)}, mx \in {SeqMax(col)}})

\* np.linspace(first, last, n_bins + 1); Edges(col, n)[k + 1] is e[k]
Edges(col, n_bins) ==
    Only({Tup([k \in 1..(n_bins + 1) |->
                  RAdd(first, RDiv(RMul(RInt(k - 1), RSub(lst, first)),
                                   RInt(n_bins)))]) :
             first \in {FirstEdge(col)}, lst \in {LastEdge(col)}})

\* every bin half-open, the last one too
InHistBinHalfOpen(v, e, k) == RLe(e[k], v) /\ RLt(v, e[k + 1])

\* whether np.histogram counts value v in bin k (1-based) of the edges e
InHistBin(v, e, k) ==
    /\ RLe(e[k], v)
    /\ \/ RLt(v, e[k + 1])
       \/ k = Len(e) - 1 /\ v = e[k + 1]

HistCount(col, e, k) == Cardinality({j \in 1..Len(col) : InHistBin(col[j], e, k)})

\* np.diff(edges)
Diff(e) == Tup([k \in 1..(Len(e) - 1) |-> RSub(e[k + 1], e[k])])

\* density = count / (number of values * bin width)
Density(col, e) ==
    Only({Tup([k \in 1..(Len(e) - 1) |->
                  RDiv(RInt(HistCount(col, e, k)),
                       RMul(RInt(Len(col)), width[k]))]) :
             width \in {Diff(e)}})

\* the pair np.histogram returns
Histogram(c, n_bins) ==
    Only({[hist |-> Density(col, e), edges |-> e] :
             col \in {c}, e \in {Edges(c, n_bins)}})

(***************************************************************************)
(* np.digitize(v, edges, right=True): the index i with                     *)
(* edges[i-1] < v <= edges[i]; 0 when v <= edges[0] and Len(edges) when v  *)
(* is above the last edge.                                                 *)
(***************************************************************************)
Digitize(v, e) == Cardinality({k \in 1..Len(e) : RLt(e[k], v)})

(***************************************************************************)
(* _calculate_outlier_scores, for one sample value v of feature i          *)
(* (e = bin_edges[:, i], h = hist[:, i]).                                  *)
(***************************************************************************)
OutScore(h, alpha) == Tup([k \in 1..Len(h) |-> Log2(RAdd(h[k], alpha))])

\* dist < bin_width * tol
BelowWithinTolStrict(v, e, tol) == RLt(RSub(e[1], v), RMul(RSub(e[2], e[1]), tol))
\* dist >= bin_width * tol
BelowWithinTolReversed(v, e, tol) == RLe(RMul(RSub(e[2], e[1]), tol), RSub(e[1], v))

\* dist <= bin_width * tol, below the first edge (lines 203-208)
BelowWithinTol(v, e, tol) == RLe(RSub(e[1], v), RMul(RSub(e[2], e[1]), tol))

\* dist <= bin_width * tol, above the last edge (lines 216-221)
AboveWithinTol(v, e, n_bins, tol) ==
    RLe(RSub(v, e[n_bins + 1]), RMul(RSub(e[n_bins + 1], e[n_bins]), tol))

\* lines 202-226, given out_score_i and bin_inds[j]
SubScore(v, e, out_score_i, bin_ind, n_bins, tol) ==
    IF bin_ind = 0
    THEN IF BelowWithinTol(v, e, tol)
         THEN out_score_i[1]
         ELSE LMin(out_score_i)
    ELSE IF bin_ind = n_bins + 1
    THEN IF AboveWithinTol(v, e, n_bins, tol)
         THEN out_score_i[n_bins]
         ELSE LMin(out_score_i)
    ELSE out_score_i[bin_ind]

\* whether the value is given np.min(out_score_i) by one of the two
\* out-of-range branches (lines 211 and 224)
Fallback(v, e, n_bins, tol) ==
    \/ Digitize(v, e) = 0 /\ ~BelowWithinTol(v, e, tol)
    \/ Digitize(v, e) = n_bins + 1 /\ ~AboveWithinTol(v, e, n_bins, tol)

\* the column outlier_scores[:, i] of the sample column x
FeatureScores(x, e, h, n_bins, alpha, tol) ==
    Only({Tup([j \in 1..Len(x) |->
                  SubScore(x[j], e, out_score_i, Digitize(x[j], e), n_bins, tol)]) :
             out_score_i \in {OutScore(h, alpha)}})

\* the matrix outlier_scores[j][i], for a matrix X whose columns all have
\* a histogram
CalculateOutlierScores(X, bin_edges, hist, n_bins, alpha, tol) ==
    Only({Tup([j \in 1..NRows(X) |-> Tup([i \in 1..NCols(X) |-> cols[i][j]])]) :
             cols \in {Tup([i \in 1..NCols(X) |->
                               FeatureScores(Column(X, i), bin_edges[i], hist[i],
                                             n_bins, alpha, tol)])}})

\* invert_order(scores): the scores multiplied by -1
invert_order(scores) == Tup([j \in 1..Len(scores) |-> LNeg(scores[j])])

\* np.sum(outlier_scores, axis=1), the inversion forgotten
AggregateNoInvert(outlier_scores) ==
    Tup([j \in 1..Len(outlier_scores) |-> LSum(outlier_scores[j])])

\* invert_order(np.sum(outlier_scores, axis=1))
Aggregate(outlier_scores) ==
    invert_order(Tup([j \in 1..Len(outlier_scores) |-> LSum(outlier_scores[j])]))


(***************************************************************************)
(* The detector.                                                           *)
(*                                                                         *)
(* obj is the configuration the constructor stored; hist_, bin_edges_ and  *)
(* decision_scores_ are the attributes fit assigns.  fitted tells whether  *)
(* a call of fit has returned.  last records the last call: its input,     *)
(* whether it raised and at which step, the matrix outlier_scores it       *)
(* computed (sub) and the vector it returned (scores).  memo keeps the     *)
(* first result decision_function returned since the last call of fit.     *)
(* calls counts the calls made.                                            *)
(***************************************************************************)
\* no detector has been constructed yet
NoObject == [made |-> FALSE, n_bins |-> 0, alpha |-> <<0, 1>>, tol |-> <<0, 1>>]
\* an attribute that does not exist; an assigned array has at least one
\* feature, so it is never the empty sequence
Unset == <<>>
NoCall ==
    [op |-> "none", X |-> <<>>, raised |-> FALSE, stage |-> "",
     sub |-> <<>>, scores |-> <<>>]
NoMemo == [X |-> <<>>, scores |-> <<>>]

Raised(op, X, stage) ==
    [op |-> op, X |-> X, raised |-> TRUE, stage |-> stage,
     sub |-> <<>>, scores |-> <<>>]
Returned(op, X, sub, scores) ==
    [op |-> op, X |-> X, raised |-> FALSE, stage |-> "done",
     sub |-> sub, scores |-> scores]

\* check_parameter(param, 0, 1): the parameter lies in the open interval
check_parameter(param) == RLt(RInt(0), param) /\ RLt(param, RInt(1))

\* np.zeros([n, n_features]), kept per feature
Zeros(n, n_features) == Tup([i \in 1..n_features |-> Tup([k \in 1..n |-> RInt(0)])])

\* the assertion of fit on one feature:
\* np.isclose(1, np.sum(hist * np.diff(edges)), atol=0.1), rtol = 1e-05
AssertAtol == R(1, 10)
AssertRtol == R(1, 100000)
RAbs(a) == IF a[1] < 0 THEN <<-a[1], a[2]>> ELSE a
Integral(h, e) ==
    Only({RSum(Tup([k \in 1..Len(h) |-> RMul(h[k], width[k])])) :
             width \in {Diff(e)}})
AssertionHolds(h, e) ==
    \E area \in {Integral(h, e)} :
        RLe(RAbs(RSub(RInt(1), area)),
            RAdd(AssertAtol, RMul(AssertRtol, RAbs(area))))

Init ==
    /\ obj = NoObject
    /\ hist_ = Unset
    /\ bin_edges_ = Unset
    /\ decision_scores_ = Unset
    /\ fitted = FALSE
    /\ last = NoCall
    /\ memo = NoMemo
    /\ calls = 0

(***************************************************************************)
(* HBOS.__init__(n_bins, alpha, tol): only alpha and tol are checked.      *)
(***************************************************************************)
Construct(n_bins, alpha, tol) ==
    /\ ~obj.made
    /\ calls < MaxCalls
    /\ calls' = calls + 1
    /\ IF check_parameter(alpha) /\ check_parameter(tol)
       THEN /\ obj' = [made |-> TRUE, n_bins |-> n_bins, alpha |-> alpha, tol |-> tol]
            /\ last' = Returned("init", <<>>, <<>>, <<>>)
       ELSE /\ obj' = NoObject
            /\ last' = Raised("init", <<>>, "check_parameter")
    /\ UNCHANGED <<hist_, bin_edges_, decision_scores_, fitted, memo>>

(***************************************************************************)
(* HBOS.fit(X).                                                            *)
(***************************************************************************)
\* np.histogram of every column of X
Histograms(X, n_bins) ==
    Tup([i \in 1..NCols(X) |-> Histogram(Column(X, i), n_bins)])

\* the feature at which the loop of fit stops: the first feature whose
\* assertion fails, or one past the last when none does
FitUpto(H) ==
    Only({IF failing = {} THEN Len(H) + 1
          ELSE CHOOSE f \in failing : \A g \in failing : f <= g :
             failing \in {{i \in 1..Len(H) :
                              ~AssertionHolds(H[i].hist, H[i].edges)}}})

\* hist_ and bin_edges_ when the loop has assigned the features 1..upto
FitHist(H, n_bins, upto) ==
    Tup([i \in 1..Len(H) |->
            IF i <= upto THEN H[i].hist
            ELSE Tup([k \in 1..n_bins |-> RInt(0)])])

FitEdges(H, n_bins, upto) ==
    Tup([i \in 1..Len(H) |->
            IF i <= upto THEN H[i].edges
            ELSE Tup([k \in 1..(n_bins + 1) |-> RInt(0)])])

Fit(X) ==
    /\ obj.made
    /\ calls < MaxCalls
    /\ calls' = calls + 1
    /\ memo' = NoMemo
    /\ UNCHANGED obj
    /\ IF ~check_array(X)
       THEN \* line 90 raises
            /\ last' = Raised("fit", X, "check_array")
            /\ UNCHANGED <<hist_, bin_edges_, decision_scores_, fitted>>
       ELSE IF obj.n_bins < 0
       THEN \* np.zeros raises on a negative dimension (line 94)
            /\ last' = Raised("fit", X, "zeros")
            /\ UNCHANGED <<hist_, bin_edges_, decision_scores_, fitted>>
       ELSE IF obj.n_bins = 0
       THEN \* both arrays are assigned, then np.histogram raises (line 100)
            /\ hist_' = Zeros(0, NCols(X))
            /\ bin_edges_' = Zeros(1, NCols(X))
            /\ last' = Raised("fit", X, "histogram")
            /\ UNCHANGED <<decision_scores_, fitted>>
       ELSE \E H \in {Histograms(X, obj.n_bins)} :
            \E upto \in {FitUpto(H)} :
            \E h \in {FitHist(H, obj.n_bins, upto)},
               e \in {FitEdges(H, obj.n_bins, upto)} :
               /\ hist_' = h
               /\ bin_edges_' = e
               /\ IF upto <= NCols(X)
                  THEN \* the assertion of line 102 raises
                       /\ last' = Raised("fit", X, "assert")
                       /\ UNCHANGED <<decision_scores_, fitted>>
                  ELSE \E sub \in {CalculateOutlierScores(
                                      X, e, h, obj.n_bins, obj.alpha, obj.tol)} :
                          /\ decision_scores_' = Aggregate(sub)
                          /\ fitted' = TRUE
                          /\ last' = Returned("fit", X, sub, <<>>)

(***************************************************************************)
(* HBOS.decision_function(X).                                              *)
(***************************************************************************)
\* check_is_fitted(self, ['hist_', 'bin_edges_'])
check_is_fitted == hist_ # Unset /\ bin_edges_ # Unset

\* every array access of the compiled kernel is within bounds: each column
\* of X has a histogram and the histograms have at least one bin
KernelInBounds(X) == NCols(X) <= Len(hist_) /\ obj.n_bins >= 1

\* what an out-of-bounds read of the compiled kernel can yield
GarbageScores == {Log2(R(1, 3)), Log2(R(7, 1))}

DecisionOutcomes(X) ==
    IF ~check_is_fitted THEN {Raised("decision_function", X, "check_is_fitted")}
    ELSE IF ~check_array(X) THEN {Raised("decision_function", X, "check_array")}
    ELSE IF KernelInBounds(X)
    THEN {Returned("decision_function", X, sub, Aggregate(sub)) :
             sub \in {CalculateOutlierScores(
                         X, bin_edges_, hist_, obj.n_bins, obj.alpha, obj.tol)}}
    ELSE \* the kernel is compiled without bounds checks: it reads outside
         \* its arrays and either fails or returns what it read
         {Raised("decision_function", X, "kernel")}
         \cup {Returned("decision_function", X, <<>>, g) :
                  g \in [1..NRows(X) -> GarbageScores]}

DecisionFunction(X) ==
    /\ obj.made
    /\ calls < MaxCalls
    /\ calls' = calls + 1
    /\ \E r \in DecisionOutcomes(X) :
          /\ last' = r
          /\ memo' = IF ~r.raised /\ memo = NoMemo
                      THEN [X |-> X, scores |-> r.scores]
                      ELSE memo
    /\ UNCHANGED <<obj, hist_, bin_edges_, decision_scores_, fitted>>

(***************************************************************************)
(* Inputs.                                                                 *)
(***************************************************************************)
Matrices(rows, cols, vals) ==
    UNION {[1..r -> [1..c -> vals]] : r \in rows, c \in cols}

BinsInputs == (-1)..MaxBins
AlphaInputs == {R(0, 1), R(1, 10), R(1, 1)}
TolInputs == {R(1, 2), R(3, 2)}
TrainVals == {k * Grid : k \in 0..MaxVal}
SampleVals == (-Grid)..((MaxVal + 1) * Grid)

\* the calls of a detector's life, on small matrices
TrainInputs == Matrices(0..(MaxRows - 1), 1..MaxCols, {0, Grid})
SampleInputs == Matrices(0..1, 1..(MaxCols + 1), {0, Grid})

Next ==
    \/ \E n \in BinsInputs, a \in AlphaInputs, t \in TolInputs : Construct(n, a, t)
    \/ \E X \in TrainInputs : Fit(X)
    \/ \E X \in SampleInputs : DecisionFunction(X)

Spec == Init /\ [][Next]_vars

\* one fit and one scoring call of a validly configured detector: every
\* one-feature training matrix of up to MaxRows rows, every training matrix
\* of up to MaxCols features and fewer rows, and every one-row sample
KernelTrain ==
    Matrices(1..MaxRows, {1}, TrainVals)
        \cup Matrices(1..(MaxRows - 1), 1..MaxCols, TrainVals)
KernelSamples == Matrices({1}, 1..MaxCols, SampleVals)

InitKernel ==
    /\ obj \in {[made |-> TRUE, n_bins |-> n, alpha |-> R(1, 10), tol |-> R(1, 2)] :
                    n \in 1..MaxBins}
    /\ hist_ = Unset
    /\ bin_edges_ = Unset
    /\ decision_scores_ = Unset
    /\ fitted = FALSE
    /\ last = NoCall
    /\ memo = NoMemo
    /\ calls = MaxCalls - 2

NextKernel ==
    \/ \E X \in KernelTrain : Fit(X)
    \/ \E X \in KernelSamples : DecisionFunction(X)

SpecKernel == InitKernel /\ [][NextKernel]_vars

(***************************************************************************)
(* Properties.                                                             *)
(***************************************************************************)
\* the last call was a fit that returned
FitReturned == last.op = "fit" /\ ~last.raised
\* the last call was a decision_function whose kernel ran within its arrays
\* and that returned
Scored == last.op = "decision_function" /\ ~last.raised /\ last.sub # <<>>

\* log2(h[k] + alpha), k counted from 1
LogDensity(h, k) == Log2(RAdd(h[k], obj.alpha))
\* x is the minimum over all bins of log2(h[k] + alpha)
IsMinLogDensity(x, h) ==
    /\ \E k \in 1..Len(h) : x = LogDensity(h, k)
    /\ \A k \in 1..Len(h) : LLe(x, LogDensity(h, k))

\* C6: after every call of fit on a valid matrix with n_bins >= 1, fit has
\* not raised, every feature's sum of density * width is within 0.1 of 1,
\* and every training value is counted in exactly one bin.
C6_DensityNormalisation ==
    (last.op = "fit" /\ check_array(last.X) /\ obj.n_bins >= 1) =>
        /\ ~last.raised
        /\ \A i \in 1..NCols(last.X) :
              /\ RLe(RAbs(RSub(Integral(hist_[i], bin_edges_[i]), RInt(1))), R(1, 10))
              /\ \A j \in 1..NRows(last.X) :
                    Cardinality({k \in 1..obj.n_bins :
                        InHistBin(Val(last.X[j][i]), bin_edges_[i], k)}) = 1

\* a fit has returned on a matrix with a column of identical values and a
\* column of different values
C6_Witness ==
    /\ FitReturned
    /\ \E i \in 1..NCols(last.X) : SeqMin(Column(last.X, i)) = SeqMax(Column(last.X, i))
    /\ \E i \in 1..NCols(last.X) : SeqMin(Column(last.X, i)) # SeqMax(Column(last.X, i))

\* the aggregate scores of feature i scored alone against the histogram h
\* with the edges e
Alone(X, i, e, h) ==
    Aggregate(CalculateOutlierScores(
        Tup([j \in 1..NRows(X) |-> <<X[j][i]>>]),
        <<e>>, <<h>>, obj.n_bins, obj.alpha, obj.tol))

\* the histogram fit builds from column i of the training matrix alone
OwnHistogram(X, i) == Histogram(Column(X, i), obj.n_bins)

\* C7: decision_scores_ and the vector decision_function returns are the
\* sum over the features of the sub-scores, inverted once; the aggregate
\* score of a sample is the sum of the aggregate scores of its features,
\* each scored alone against its own single-feature histogram.
C7_Additivity ==
    /\ FitReturned =>
          \A j \in 1..NRows(last.X) :
             /\ decision_scores_[j] = LNeg(LSum(last.sub[j]))
             /\ decision_scores_[j] =
                   LSum(Tup([i \in 1..NCols(last.X) |->
                       Alone(last.X, i, OwnHistogram(last.X, i).edges,
                             OwnHistogram(last.X, i).hist)[j]]))
    /\ Scored =>
          \A j \in 1..NRows(last.X) :
             /\ last.scores[j] = LNeg(LSum(last.sub[j]))
             /\ last.scores[j] =
                   LSum(Tup([i \in 1..NCols(last.X) |->
                       Alone(last.X, i, bin_edges_[i], hist_[i])[j]]))

\* decision_function has scored a sample of two features whose sub-scores
\* differ
C7_Witness ==
    /\ Scored
    /\ NCols(last.X) = 2
    /\ last.sub[1][1] # last.sub[1][2]
    /\ last.scores[1] # LZero

\* the number of values of col in the right-closed bin (e[k], e[k+1]], the
\* first bin also holding e[0]
RightClosedCount(col, e, k) ==
    Cardinality({j \in 1..Len(col) :
        \/ RLt(e[k], col[j]) /\ RLe(col[j], e[k + 1])
        \/ k = 1 /\ col[j] = e[1]})

\* C8: after fit, every h[k] is the density of the right-closed bin
\* (e[k], e[k+1]] (the first bin also holding e[0]), and every training
\* value is scored with the density of the bin it was counted in.
C8_Original ==
    FitReturned =>
        \A i \in 1..NCols(last.X) :
           /\ \A k \in 1..obj.n_bins :
                 hist_[i][k] =
                    RDiv(RInt(RightClosedCount(Column(last.X, i), bin_edges_[i], k)),
                         RMul(RInt(NRows(last.X)),
                              RSub(bin_edges_[i][k + 1], bin_edges_[i][k])))
           /\ \A j \in 1..NRows(last.X) :
                 \A k \in 1..obj.n_bins :
                    InHistBin(Val(last.X[j][i]), bin_edges_[i], k)
                        => last.sub[j][i] = LogDensity(hist_[i], k)

\* C9 as stated: a training value equal to the minimum of its column is
\* scored log2(h[0] + alpha), one equal to the maximum log2(h[n_bins-1] +
\* alpha), and neither by the out-of-range fallback, also in a column whose
\* values are all identical.
C9_Original ==
    FitReturned =>
        \A i \in 1..NCols(last.X) : \A j \in 1..NRows(last.X) :
           LET col == Column(last.X, i)
           IN  /\ col[j] = SeqMin(col) =>
                     last.sub[j][i] = LogDensity(hist_[i], 1)
               /\ col[j] = SeqMax(col) =>
                     last.sub[j][i] = LogDensity(hist_[i], obj.n_bins)
               /\ (col[j] = SeqMin(col) \/ col[j] = SeqMax(col)) =>
                     ~Fallback(col[j], bin_edges_[i], obj.n_bins, obj.tol)

\* C9, amended: in a column with at least two different values the minimum
\* is scored log2(h[0] + alpha) and the maximum log2(h[n_bins-1] + alpha);
\* in a column of identical values the value lies inside the edges and is
\* scored with the bin digitize resolves; a sample equal to the first or to
\* the last edge is scored with the first or the last bin; none of these
\* takes the out-of-range fallback.
C9_TrainingExtrema ==
    /\ FitReturned =>
          \A i \in 1..NCols(last.X) : \A j \in 1..NRows(last.X) :
             LET col == Column(last.X, i)
                 b == Digitize(col[j], bin_edges_[i])
             IN  /\ (col[j] = SeqMin(col) /\ SeqMin(col) # SeqMax(col)) =>
                       last.sub[j][i] = LogDensity(hist_[i], 1)
                 /\ (col[j] = SeqMax(col) /\ SeqMin(col) # SeqMax(col)) =>
                       last.sub[j][i] = LogDensity(hist_[i], obj.n_bins)
                 /\ SeqMin(col) = SeqMax(col) =>
                       /\ b \in 1..obj.n_bins
                       /\ last.sub[j][i] = LogDensity(hist_[i], b)
                 /\ (col[j] = SeqMin(col) \/ col[j] = SeqMax(col)) =>
                       ~Fallback(col[j], bin_edges_[i], obj.n_bins, obj.tol)
    /\ Scored =>
          \A i \in 1..NCols(last.X) : \A j \in 1..NRows(last.X) :
             LET v == Val(last.X[j][i])
             IN  /\ v = bin_edges_[i][1] =>
                       /\ last.sub[j][i] = LogDensity(hist_[i], 1)
                       /\ ~Fallback(v, bin_edges_[i], obj.n_bins, obj.tol)
                 /\ v = bin_edges_[i][obj.n_bins + 1] =>
                       /\ last.sub[j][i] = LogDensity(hist_[i], obj.n_bins)
                       /\ ~Fallback(v, bin_edges_[i], obj.n_bins, obj.tol)

\* a fit has scored the minimum of a column of different values whose first
\* bin is not the least dense one, beside a column of identical values
C9_Witness ==
    /\ FitReturned
    /\ \E i \in 1..NCols(last.X) :
          /\ SeqMin(Column(last.X, i)) # SeqMax(Column(last.X, i))
          /\ ~IsMinLogDensity(LogDensity(hist_[i], 1), hist_[i])
    /\ \E i \in 1..NCols(last.X) :
          SeqMin(Column(last.X, i)) = SeqMax(Column(last.X, i))

\* C10: a sample value outside [e[0], e[n_bins]] is scored with the edge
\* bin (bin 0 below, bin n_bins-1 above) when its distance to the range is
\* at most tol times the width of that bin, and with the minimum over all
\* bins otherwise.
C10_ToleranceBoundary ==
    Scored =>
        \A i \in 1..NCols(last.X) : \A j \in 1..NRows(last.X) :
           LET v == Val(last.X[j][i])
               e == bin_edges_[i]
               n == obj.n_bins
           IN  /\ RLt(v, e[1]) =>
                     IF RLe(RSub(e[1], v), RMul(RSub(e[2], e[1]), obj.tol))
                     THEN last.sub[j][i] = LogDensity(hist_[i], 1)
                     ELSE IsMinLogDensity(last.sub[j][i], hist_[i])
               /\ RLt(e[n + 1], v) =>
                     IF RLe(RSub(v, e[n + 1]), RMul(RSub(e[n + 1], e[n]), obj.tol))
                     THEN last.sub[j][i] = LogDensity(hist_[i], n)
                     ELSE IsMinLogDensity(last.sub[j][i], hist_[i])

\* decision_function has scored a sample lying exactly at e[0] - width * tol
\* in a feature whose first bin is not the least dense
C10_Witness ==
    /\ Scored
    /\ \E i \in 1..NCols(last.X) :
          /\ RSub(bin_edges_[i][1], Val(last.X[1][i]))
                = RMul(RSub(bin_edges_[i][2], bin_edges_[i][1]), obj.tol)
          /\ ~IsMinLogDensity(LogDensity(hist_[i], 1), hist_[i])

\* v lies strictly inside a bin of the highest density
InsideHighest(v, e, h) ==
    \E k \in 1..Len(h) :
       /\ RLt(e[k], v) /\ RLt(v, e[k + 1])
       /\ \A m \in 1..Len(h) : RLe(h[m], h[k])

\* v lies outside [e[0], e[n_bins]] by more than tol times the width of the
\* nearest edge bin
FarOutside(v, e, n, tol) ==
    \/ RLt(v, e[1]) /\ RLt(RMul(RSub(e[2], e[1]), tol), RSub(e[1], v))
    \/ RLt(e[n + 1], v) /\ RLt(RMul(RSub(e[n + 1], e[n]), tol), RSub(v, e[n + 1]))

\* the samples b of the fitted feature count that lie far outside the range
\* of every feature
FarSamples ==
    {b \in KernelSamples :
        /\ NCols(b) = Len(hist_)
        /\ \A i \in 1..NCols(b) :
              FarOutside(Val(b[1][i]), bin_edges_[i], obj.n_bins, obj.tol)}

\* the score decision_function returns for the one-row sample b
ScoreOf(b) ==
    Aggregate(CalculateOutlierScores(
        b, bin_edges_, hist_, obj.n_bins, obj.alpha, obj.tol))[1]

\* decision_function has scored a sample of the fitted feature count that
\* lies strictly inside a highest-density bin of every feature
ScoredInsideHighest ==
    /\ Scored
    /\ NCols(last.X) = Len(hist_)
    /\ \A i \in 1..NCols(last.X) :
          InsideHighest(Val(last.X[1][i]), bin_edges_[i], hist_[i])

\* some feature's histogram has two bins of different densities
NonUniform ==
    \E i \in 1..Len(hist_) : \E k, m \in 1..Len(hist_[i]) : hist_[i][k] # hist_[i][m]

\* C1 as stated: the score of a sample inside the highest-density bins is
\* strictly lower than the score of every sample far outside every
\* feature's range (the range taken as [e[0], e[n_bins]]).
C1_Original ==
    ScoredInsideHighest =>
        \A b \in FarSamples : LLt(last.scores[1], ScoreOf(b))

\* C1, amended: the score of a sample inside the highest-density bins is
\* lower than or equal to the score of every sample far outside every
\* feature's range [e[0], e[n_bins]], and strictly lower exactly when some
\* feature's histogram has two bins of different densities.
C1_Orientation ==
    ScoredInsideHighest =>
        \A b \in FarSamples :
           /\ LLe(last.scores[1], ScoreOf(b))
           /\ NonUniform <=> LLt(last.scores[1], ScoreOf(b))

\* a two-feature sample inside the highest-density bins has been scored, a
\* histogram has bins of different densities and a far sample exists
C1_Witness ==
    /\ ScoredInsideHighest
    /\ NCols(last.X) = 2
    /\ NonUniform
    /\ FarSamples # {}

\* the configuration lies in the documented domain
ValidConfiguration ==
    /\ obj.n_bins >= 1
    /\ RLt(RInt(0), obj.alpha) /\ RLt(obj.alpha, RInt(1))
    /\ RLt(RInt(0), obj.tol) /\ RLt(obj.tol, RInt(1))

\* C2: after a fit has returned, decision_function on a matrix whose number
\* of columns differs from the number of fitted features raises.
C2_Original ==
    (/\ last.op = "decision_function"
     /\ fitted
     /\ check_array(last.X)
     /\ NCols(last.X) # Len(hist_)) => last.raised

\* C3: decision_function raises whenever no call of fit has returned.
C3_Original ==
    (last.op = "decision_function" /\ ~fitted) => last.raised

\* C4: no detector exists with alpha or tol outside (0, 1) or with a
\* non-positive n_bins, and no fit on such a configuration gets past the
\* validation of its input.
C4_Original ==
    /\ obj.made => ValidConfiguration
    /\ (last.op = "fit" /\ last.stage \in {"zeros", "histogram", "assert", "done"})
          => ValidConfiguration

\* C5: once a fit has returned, a call of decision_function leaves hist_,
\* bin_edges_ and decision_scores_ unchanged, and returns the vector an
\* earlier call returned for the same matrix.
C5_Original ==
    [][(fitted /\ last'.op = "decision_function" /\ calls' = calls + 1) =>
          /\ <<hist_, bin_edges_, decision_scores_>>' =
                <<hist_, bin_edges_, decision_scores_>>
          /\ (~last'.raised /\ memo # NoMemo /\ memo.X = last'.X)
                => last'.scores = memo.scores]_vars

=============================================================================
